---- MODULE Spec2Model ----
(***************************************************************************)
(* Model of scripts/generate_test_audio.py: generate_pencil_sound (the     *)
(* signal pipeline) and main (directory creation, WAV write, report).      *)
(*                                                                         *)
(* Floating-point amplitudes are fixed-point integers: the amplitude 1.0   *)
(* is the integer Unit.  A float that may be NaN is a record               *)
(* [nan |-> BOOLEAN, v |-> Int].  Durations are the dyadic rationals       *)
(* q / DurDen seconds, for which sample_rate * duration is exact in        *)
(* binary floating point.  sin, exp and sqrt are rational approximations   *)
(* that keep the ranges of the functions (|sin| <= 1, 0 < exp(-x) <= 1).   *)
(***************************************************************************)
EXTENDS Integers, Sequences, FiniteSets, TLC

(***************************************************************************)
(* Bounds of the model.                                                    *)
(***************************************************************************)
\* fixed-point resolution: the amplitude 1.0
Unit == 1000
\* durations are q / DurDen seconds
DurDen == 32
\* largest duration numerator q
MaxDurQ == 4
\* longest buffer of the two-run specification
MaxTwinSamples == 3

\* sample rates tried: fade_samples 0, 1 and 2
SampleRates == {10, 35, 44}
Durations == 0..MaxDurQ

(***************************************************************************)
(* Program constants.                                                      *)
(***************************************************************************)
Int16Scale == 32767
Int16Min == -32768
Int16Max == 32767
Partial1Hz == 2000
Partial2Hz == 3000
Decay1 == 5
Decay2 == 8
\* main's call uses the defaults: duration 0.5 = 1 / 2, sample_rate 44100
DefaultDurNum == 1
DefaultDurDen == 2
DefaultSampleRate == 44100

\* results of casting NaN to int16 (undefined in C): any of these
NanCastOutcomes == {Int16Min, 0, Int16Max}

(***************************************************************************)
(* Arithmetic helpers.                                                     *)
(***************************************************************************)
Abs(x) == IF x < 0 THEN -x ELSE x

\* division truncating toward zero (b > 0), as C and int() truncate
TruncDiv(a, b) == IF a >= 0 THEN a \div b ELSE -((-a) \div b)

Min(a, b) == IF a < b THEN a ELSE b
Max(a, b) == IF a > b THEN a ELSE b

RECURSIVE SumTo(_, _)
\* f[1] + ... + f[n]
SumTo(f, n) == IF n = 0 THEN 0 ELSE f[n] + SumTo(f, n - 1)

RECURSIVE MaxAbsTo(_, _)
\* np.max(np.abs(s)) over the first n entries
MaxAbsTo(s, n) == IF n = 0 THEN 0 ELSE Max(Abs(s[n]), MaxAbsTo(s, n - 1))

RECURSIVE ISqrtFrom(_, _)
\* Newton's iteration down from a guess s >= sqrt(x)
ISqrtFrom(x, s) ==
    IF s = 0 \/ s <= x \div s THEN s ELSE ISqrtFrom(x, (s + x \div s) \div 2)

\* floor of the square root
ISqrt(x) == ISqrtFrom(x, x)

\* sin(pi * c / b) for 0 <= c <= b, scaled by Unit (Bhaskara's rational form)
SinHalf(c, b) == (16 * c * (b - c) * Unit) \div (5 * b * b - 4 * c * (b - c))

\* sin(2 * pi * a / b), scaled by Unit, for a >= 0, b > 0
SinTurn(a, b) ==
    LET c == (2 * a) % (2 * b)
    IN IF c <= b THEN SinHalf(c, b) ELSE -SinHalf(c - b, b)

\* cos(2 * pi * a / b), scaled by Unit
CosTurn(a, b) == SinTurn(4 * a + b, 4 * b)

\* exp(-xa / xb) for xa >= 0, xb > 0, scaled by Unit: 1 / (1 + x + x^2 / 2)
ExpNeg(xa, xb) == (2 * xb * xb * Unit) \div (2 * xb * xb + 2 * xa * xb + xa * xa)

(***************************************************************************)
(* Floats that may be NaN.                                                 *)
(***************************************************************************)
Num(x) == [nan |-> FALSE, v |-> x]
NaN == [nan |-> TRUE, v |-> 0]

FAdd(a, y) == IF a.nan THEN NaN ELSE Num(a.v + y)
\* a * g with g a fixed-point gain
FMulGain(a, g) == IF a.nan THEN NaN ELSE Num(TruncDiv(a.v * g, Unit))

(***************************************************************************)
(* generate_pencil_sound, statement by statement.                          *)
(***************************************************************************)
\* BufLen counting the end point too, as linspace does by default
BufLenInclusive(num, den, R) == (R * num) \div den + 1

\* BufLen rounding up
BufLenCeil(num, den, R) == (R * num + den - 1) \div den

\* int(sample_rate * duration) for the duration num / den
BufLen(num, den, R) == (R * num) \div den

\* np.linspace(0, duration, n, False): t[i] = (i - 1) * duration / n, kept as
\* the numerator over TimeDen(n)
TimeArray(q, n) == [i \in 1..n |-> (i - 1) * q]
TimeDen(n) == DurDen * n

\* the white noise arrays np.random.normal(0, 0.1, n) may return
NoiseVals == {-(Unit \div 10), 0, Unit \div 10}
Draws(n) == [1..n -> NoiseVals]

\* np.fft.fftfreq(n, 1 / R)[i] = FreqIndex * R / n, kept as the numerator over n
FreqIndex(i, n) == IF i - 1 <= (n - 1) \div 2 THEN i - 1 ELSE i - 1 - n
Frequencies(n, R) == [i \in 1..n |-> FreqIndex(i, n) * R]

\* np.where(frequencies != 0, 1 / sqrt(|frequencies|), 1); pink_filter[0] = 1:
\* the gain of bin i
PinkGain(i, n, R) ==
    IF i = 1 \/ FreqIndex(i, n) = 0
    THEN Unit
    ELSE ISqrt((Unit * Unit * n) \div Abs(FreqIndex(i, n) * R))

PinkFilter(n, R) == [i \in 1..n |-> PinkGain(i, n, R)]

\* np.fft.fft(w)[k]: real and imaginary part
FftRe(w, n, k) ==
    TruncDiv(SumTo([j \in 1..n |-> w[j] * CosTurn((k - 1) * (j - 1), n)], n), Unit)
FftIm(w, n, k) ==
    TruncDiv(SumTo([j \in 1..n |-> -(w[j] * SinTurn((k - 1) * (j - 1), n))], n), Unit)

\* np.real(np.fft.ifft(re + i im))[m]
IfftReal(re, im, n, m) ==
    TruncDiv(SumTo([k \in 1..n |->
                       re[k] * CosTurn((k - 1) * (m - 1), n)
                       - im[k] * SinTurn((k - 1) * (m - 1), n)], n),
             Unit * n)

\* np.real(np.fft.ifft(np.fft.fft(w) * pink_filter))
SpectralShape(w, R) ==
    LET n == Len(w)
        re == [k \in 1..n |-> TruncDiv(FftRe(w, n, k) * PinkGain(k, n, R), Unit)]
        im == [k \in 1..n |-> TruncDiv(FftIm(w, n, k) * PinkGain(k, n, R), Unit)]
    IN [m \in 1..n |-> IfftReal(re, im, n, m)]

\* NormalizeSample scaling by 3 in place of 0.3
NormalizeSampleGain3(x, peak) ==
    IF peak = 0 THEN NaN ELSE Num(TruncDiv(x * Unit, peak) * 3)

\* x / peak * 0.3 for one sample; 0 / 0 is NaN (numpy warns and goes on)
NormalizeSample(x, peak) ==
    IF peak = 0 THEN NaN ELSE Num(TruncDiv(TruncDiv(x * Unit, peak) * 3, 10))

\* pink_noise / np.max(np.abs(pink_noise)) * 0.3
Normalize(p) ==
    LET peak == MaxAbsTo(p, Len(p))
    IN [i \in 1..Len(p) |-> NormalizeSample(p[i], peak)]

\* amp * sin(2 pi hz t) * exp(-decay t) at t = tn / td; amp is ampNum / ampDen
Partial(ampNum, ampDen, hz, decay, tn, td) ==
    TruncDiv(TruncDiv(((ampNum * Unit) \div ampDen) * SinTurn(hz * tn, td), Unit)
                 * ExpNeg(decay * tn, td), Unit)

\* 0.1 sin(2 pi 2000 t) exp(-5 t) + 0.05 sin(2 pi 3000 t) exp(-8 t)
Harmonic(tt, td) ==
    [i \in 1..Len(tt) |->
        Partial(1, 10, Partial1Hz, Decay1, tt[i], td)
        + Partial(5, 100, Partial2Hz, Decay2, tt[i], td)]

\* sound = pink_noise + harmonic
Combine(p, h) == [i \in 1..Len(p) |-> FAdd(p[i], h[i])]

\* FadeSamples rounding to the nearest integer
FadeSamplesRounded(R) == (R + 10) \div 20

\* int(0.05 * sample_rate)
FadeSamples(R) == R \div 20

\* np.linspace(a, b, f): endpoints included, a alone when f = 1
Linspace(a, b, f) ==
    [i \in 1..f |-> IF f = 1 THEN a ELSE a + TruncDiv((i - 1) * (b - a), f - 1)]

\* arr[lo:hi] = val for 0 <= lo, hi the normalised slice bounds: the value
\* must have the slice's length or length 1, else ValueError
AssignSlice(arr, lo, hi, val) ==
    LET cnt == Max(hi - lo, 0)
    IN IF Len(val) = cnt
       THEN [ok |-> TRUE,
             arr |-> [i \in 1..Len(arr) |->
                         IF i > lo /\ i <= hi THEN val[i - lo] ELSE arr[i]]]
       ELSE IF Len(val) = 1
       THEN [ok |-> TRUE,
             arr |-> [i \in 1..Len(arr) |->
                         IF i > lo /\ i <= hi THEN val[1] ELSE arr[i]]]
       ELSE [ok |-> FALSE, arr |-> arr]

\* the start of the slice [-f:] of an array of n entries ([-0:] is [0:])
TailStart(f, n) == IF f = 0 THEN 0 ELSE Max(n - f, 0)

\* envelope[:f] = np.linspace(0, 1, f)
FadeIn(env, f) == AssignSlice(env, 0, Min(f, Len(env)), Linspace(0, Unit, f))

\* envelope[-f:] = np.linspace(1, 0, f)
FadeOut(env, f) ==
    AssignSlice(env, TailStart(f, Len(env)), Len(env), Linspace(Unit, 0, f))

\* BuildEnvelope with the two slice assignments in the other order
BuildEnvelopeSwapped(n, f) ==
    LET ones == [i \in 1..n |-> Unit]
        a == FadeOut(ones, f)
    IN IF ~a.ok THEN a ELSE FadeIn(a.arr, f)

\* np.ones_like(t), then the two slice assignments in program order
BuildEnvelope(n, f) ==
    LET ones == [i \in 1..n |-> Unit]
        a == FadeIn(ones, f)
    IN IF ~a.ok THEN a ELSE FadeOut(a.arr, f)

\* sound *= envelope
ApplyEnvelope(s, env) == [i \in 1..Len(s) |-> FMulGain(s[i], env[i])]

\* Clip left out
ClipMissing(num) == num

\* np.clip(x, -32768, 32767) on the scaled value num / Unit
Clip(num) == Max(Int16Min * Unit, Min(num, Int16Max * Unit))

\* the C cast of a finite float to int16: truncate, keep the low 16 bits
CastInt16(num) == ((TruncDiv(num, Unit) + 32768) % 65536) - 32768

\* np.clip(x * 32767, -32768, 32767).astype(np.int16) for one sample;
\* c is what the cast makes of a NaN
QuantizeSample(x, c) == IF x.nan THEN c ELSE CastInt16(Clip(x.v * Int16Scale))

Quantize(s, cast) == [i \in 1..Len(s) |-> QuantizeSample(s[i], cast[i])]

HasNaN(s) == \E i \in 1..Len(s) : s[i].nan

\* the casts the build may make of the NaN samples of s
Casts(s) == IF HasNaN(s) THEN [1..Len(s) -> NanCastOutcomes] ELSE {[i \in 1..Len(s) |-> 0]}


\* an int16 as its two little-endian bytes
SampleBytes(v) == LET u == v % 65536 IN <<u % 256, u \div 256>>

RECURSIVE ToBytes(_)
\* the raw bytes of the int16 array
ToBytes(a) == IF a = << >> THEN << >> ELSE SampleBytes(Head(a)) \o ToBytes(Tail(a))

\* WavDataBytes counting samples, not bytes
WavDataBytesSamples(n) == n

\* the data length the header declares for n int16 samples: data.nbytes
WavDataBytes(n) == 2 * n

\* what scipy.io.wavfile.write(path, rate, data) leaves at the path for a
\* one-dimensional int16 array: PCM, 1 channel, itemsize * 8 bits, nbytes of data
WavFile(rate, a) ==
    [exists |-> TRUE, channels |-> 1, bits |-> 16, rate |-> rate,
     dataBytes |-> WavDataBytes(Len(a)), data |-> ToBytes(a)]

NoFile ==
    [exists |-> FALSE, channels |-> 0, bits |-> 0, rate |-> 0,
     dataBytes |-> 0, data |-> << >>]

\* some other file left at the output path by an earlier program
StaleFile ==
    [exists |-> TRUE, channels |-> 2, bits |-> 8, rate |-> 8000,
     dataBytes |-> 3, data |-> <<1, 2, 3>>]

(***************************************************************************)
(* generate_pencil_sound as a whole, for the two-run specification.        *)
(***************************************************************************)
\* the signal just before the quantizer (line 48), when the call gets there
PreQuant(q, R, w) ==
    LET n == BufLen(q, DurDen, R)
        env == BuildEnvelope(n, FadeSamples(R))
        snd == Combine(Normalize(SpectralShape(w, R)),
                       Harmonic(TimeArray(q, n), TimeDen(n)))
    IN ApplyEnvelope(snd, env.arr)

\* the exception the call raises, "" when it returns
GenError(q, R) ==
    IF BufLen(q, DurDen, R) = 0 THEN "ZeroDivisionError"
    ELSE IF ~BuildEnvelope(BufLen(q, DurDen, R), FadeSamples(R)).ok THEN "ValueError"
    ELSE ""

\* the outcome of generate_pencil_sound(q / DurDen, R) on the draws w, the
\* build casting NaN samples as c
Generate(q, R, w, c) ==
    IF GenError(q, R) # ""
    THEN [err |-> GenError(q, R), audio |-> << >>, rate |-> 0, file |-> NoFile]
    ELSE LET a == Quantize(PreQuant(q, R, w), c)
         IN [err |-> "", audio |-> a, rate |-> R, file |-> WavFile(R, a)]

NoRun == [q |-> 0, R |-> 0, w |-> << >>, out |-> Generate(0, 0, << >>, << >>)]

(***************************************************************************)
(* State.                                                                  *)
(***************************************************************************)
VARIABLES
    pc,             \* the statement the run is at; "done", "error" at its end
    err,            \* the exception that ended the run, "" when none
    duration,       \* generate_pencil_sound's duration, as q of q / DurDen
    sample_rate,    \* generate_pencil_sound's sample_rate
    t,              \* the time array (numerators)
    white_noise,
    pink_noise,     \* integers after line 30, floats after line 33
    peak,           \* np.max(np.abs(pink_noise)) of line 33
    harmonic,
    sound,
    fade_samples,
    envelope,
    audio_data,     \* main's audio_data
    main_rate,      \* main's sample_rate
    dirExists,      \* the output directory exists
    file,           \* the file at the output path
    oldFile,        \* the file that was at the output path when the run began
    written,        \* wav.write has run in this run
    runA,           \* two-run specification: the first run
    runB            \* two-run specification: the second run

vars ==
    <<pc, err, duration, sample_rate, t, white_noise, pink_noise, peak, harmonic,
      sound, fade_samples, envelope, audio_data, main_rate, dirExists, file,
      oldFile, written, runA, runB>>

locals ==
    <<duration, sample_rate, t, white_noise, pink_noise, peak, harmonic, sound,
      fade_samples, envelope, audio_data, main_rate>>

disk == <<dirExists, file, oldFile, written>>

twin == <<runA, runB>>

LocalsInit ==
    /\ err = ""
    /\ duration = 0
    /\ sample_rate = 0
    /\ t = << >>
    /\ white_noise = << >>
    /\ pink_noise = << >>
    /\ peak = 0
    /\ harmonic = << >>
    /\ sound = << >>
    /\ fade_samples = 0
    /\ envelope = << >>
    /\ audio_data = << >>
    /\ main_rate = 0

Init ==
    /\ pc = "main"
    /\ LocalsInit
    /\ dirExists \in BOOLEAN
    /\ file \in {NoFile, StaleFile}
    /\ (file.exists => dirExists)
    /\ oldFile = file
    /\ written = FALSE
    /\ runA = NoRun
    /\ runB = NoRun

\* the exception e ends the run
Raise(e) == pc' = "error" /\ err' = e

(***************************************************************************)
(* The run, statement by statement.                                        *)
(***************************************************************************)
\* lines 57-60: main calls generate_pencil_sound with its duration and rate
Main ==
    /\ pc = "main"
    /\ \E q \in Durations, R \in SampleRates :
          /\ duration' = q
          /\ sample_rate' = R
    /\ pc' = "time"
    /\ UNCHANGED <<err, t, white_noise, pink_noise, peak, harmonic, sound,
                   fade_samples, envelope, audio_data, main_rate, disk, twin>>

\* line 15
TimeAxis ==
    /\ pc = "time"
    /\ t' = TimeArray(duration, BufLen(duration, DurDen, sample_rate))
    /\ pc' = "noise"
    /\ UNCHANGED <<err, duration, sample_rate, white_noise, pink_noise, peak,
                   harmonic, sound, fade_samples, envelope, audio_data, main_rate,
                   disk, twin>>

\* line 18
WhiteNoise ==
    /\ pc = "noise"
    /\ \E w \in Draws(Len(t)) : white_noise' = w
    /\ pc' = "shape"
    /\ UNCHANGED <<err, duration, sample_rate, t, pink_noise, peak, harmonic,
                   sound, fade_samples, envelope, audio_data, main_rate, disk, twin>>

\* lines 22-30: fftfreq divides 1.0 by n * d, a ZeroDivisionError when n = 0
Shape ==
    /\ pc = "shape"
    /\ IF Len(t) = 0
       THEN Raise("ZeroDivisionError") /\ UNCHANGED pink_noise
       ELSE /\ pink_noise' = SpectralShape(white_noise, sample_rate)
            /\ pc' = "normalize"
            /\ UNCHANGED err
    /\ UNCHANGED <<duration, sample_rate, t, white_noise, peak, harmonic, sound,
                   fade_samples, envelope, audio_data, main_rate, disk, twin>>

\* line 33
NormalizeStep ==
    /\ pc = "normalize"
    /\ peak' = MaxAbsTo(pink_noise, Len(pink_noise))
    /\ pink_noise' = Normalize(pink_noise)
    /\ pc' = "harmonic"
    /\ UNCHANGED <<err, duration, sample_rate, t, white_noise, harmonic, sound,
                   fade_samples, envelope, audio_data, main_rate, disk, twin>>

\* lines 36-40
Harmonics ==
    /\ pc = "harmonic"
    /\ harmonic' = Harmonic(t, TimeDen(Len(t)))
    /\ sound' = Combine(pink_noise, harmonic')
    /\ pc' = "envelope"
    /\ UNCHANGED <<err, duration, sample_rate, t, white_noise, pink_noise, peak,
                   fade_samples, envelope, audio_data, main_rate, disk, twin>>

\* lines 43-46: a slice assignment of the wrong length is a ValueError
EnvelopeStep ==
    /\ pc = "envelope"
    /\ fade_samples' = FadeSamples(sample_rate)
    /\ LET e == BuildEnvelope(Len(t), fade_samples')
       IN /\ envelope' = e.arr
          /\ IF e.ok THEN pc' = "fade" /\ UNCHANGED err ELSE Raise("ValueError")
    /\ UNCHANGED <<duration, sample_rate, t, white_noise, pink_noise, peak,
                   harmonic, sound, audio_data, main_rate, disk, twin>>

\* line 48
Fade ==
    /\ pc = "fade"
    /\ sound' = ApplyEnvelope(sound, envelope)
    /\ pc' = "quantize"
    /\ UNCHANGED <<err, duration, sample_rate, t, white_noise, pink_noise, peak,
                   harmonic, fade_samples, envelope, audio_data, main_rate, disk,
                   twin>>

\* lines 51-53 and the assignment of line 60
QuantizeStep ==
    /\ pc = "quantize"
    /\ \E c \in Casts(sound) : audio_data' = Quantize(sound, c)
    /\ main_rate' = sample_rate
    /\ pc' = "makedirs"
    /\ UNCHANGED <<err, duration, sample_rate, t, white_noise, pink_noise, peak,
                   harmonic, sound, fade_samples, envelope, disk, twin>>

\* lines 63-64: os.makedirs(output_dir, exist_ok=True); creating the directory
\* may fail (permissions, disk full)
MakeDirs ==
    /\ pc = "makedirs"
    /\ \E canCreate \in BOOLEAN :
          IF dirExists \/ canCreate
          THEN dirExists' = TRUE /\ pc' = "write" /\ UNCHANGED err
          ELSE Raise("OSError") /\ UNCHANGED dirExists
    /\ UNCHANGED <<locals, file, oldFile, written, twin>>

\* lines 67-68: wav.write opens the path for writing and replaces its content;
\* opening may fail
WriteWav ==
    /\ pc = "write"
    /\ \E canWrite \in BOOLEAN :
          IF canWrite
          THEN /\ file' = WavFile(main_rate, audio_data)
               /\ written' = TRUE
               /\ pc' = "report"
               /\ UNCHANGED err
          ELSE Raise("OSError") /\ UNCHANGED <<file, written>>
    /\ UNCHANGED <<locals, dirExists, oldFile, twin>>

\* lines 70-73
Report ==
    /\ pc = "report"
    /\ pc' = "done"
    /\ UNCHANGED <<err, locals, disk, twin>>

Next ==
    \/ Main
    \/ TimeAxis
    \/ WhiteNoise
    \/ Shape
    \/ NormalizeStep
    \/ Harmonics
    \/ EnvelopeStep
    \/ Fade
    \/ QuantizeStep
    \/ MakeDirs
    \/ WriteWav
    \/ Report

Spec == Init /\ [][Next]_vars

(***************************************************************************)
(* Two runs of the generator with the same parameters.                     *)
(***************************************************************************)
\* the casts the build may make in the call generate_pencil_sound(q, R) on w
RunCasts(q, R, w) ==
    IF GenError(q, R) = "" THEN Casts(PreQuant(q, R, w)) ELSE {<< >>}

InitTwin ==
    /\ pc = "run1"
    /\ LocalsInit
    /\ dirExists = FALSE
    /\ file = NoFile
    /\ oldFile = NoFile
    /\ written = FALSE
    /\ runA = NoRun
    /\ runB = NoRun

FirstRun ==
    /\ pc = "run1"
    /\ \E q \in Durations, R \in SampleRates :
          /\ BufLen(q, DurDen, R) <= MaxTwinSamples
          /\ \E w \in Draws(BufLen(q, DurDen, R)) :
                \E c \in RunCasts(q, R, w) :
                   runA' = [q |-> q, R |-> R, w |-> w, out |-> Generate(q, R, w, c)]
    /\ pc' = "run2"
    /\ UNCHANGED <<err, locals, disk, runB>>

SecondRun ==
    /\ pc = "run2"
    /\ \E w \in Draws(BufLen(runA.q, DurDen, runA.R)) :
          \E c \in RunCasts(runA.q, runA.R, w) :
             runB' = [q |-> runA.q, R |-> runA.R, w |-> w,
                      out |-> Generate(runA.q, runA.R, w, c)]
    /\ pc' = "compared"
    /\ UNCHANGED <<err, locals, disk, runA>>

NextTwin == FirstRun \/ SecondRun

SpecTwin == InitTwin /\ [][NextTwin]_vars

(***************************************************************************)
(* The quantizer of line 51 on arbitrary signals.                          *)
(***************************************************************************)
\* signal values from -1.5 to 1.5 in quarters, and NaN
QuantInputs == {Num(k * (Unit \div 4)) : k \in -6..6} \cup {NaN}

InitQuant ==
    /\ pc = "quantize"
    /\ err = ""
    /\ duration = 0
    /\ sample_rate \in SampleRates
    /\ t = << >>
    /\ white_noise = << >>
    /\ pink_noise = << >>
    /\ peak = 0
    /\ harmonic = << >>
    /\ sound \in [1..2 -> QuantInputs]
    /\ fade_samples = 0
    /\ envelope = << >>
    /\ audio_data = << >>
    /\ main_rate = 0
    /\ dirExists = FALSE
    /\ file = NoFile
    /\ oldFile = NoFile
    /\ written = FALSE
    /\ runA = NoRun
    /\ runB = NoRun

NextQuant == QuantizeStep

SpecQuant == InitQuant /\ [][NextQuant]_vars

(***************************************************************************)
(* Where the run is.                                                       *)
(***************************************************************************)
\* generate_pencil_sound has returned to main
Returned ==
    \/ pc \in {"makedirs", "write", "report", "done"}
    \/ pc = "error" /\ err = "OSError"

\* line 33 has run
PastNormalize ==
    \/ pc \in {"harmonic", "envelope", "fade", "quantize"}
    \/ Returned
    \/ pc = "error" /\ err = "ValueError"

\* lines 43-46 have run, to their end or to the exception they raise
PastEnvelope ==
    \/ pc \in {"fade", "quantize"}
    \/ Returned
    \/ pc = "error" /\ err = "ValueError"

\* line 48 has run: sound is the signal the quantizer gets
PastFade == pc = "quantize" \/ Returned

EnvelopeRaised == pc = "error" /\ err = "ValueError"

InInt16(v) == Int16Min <= v /\ v <= Int16Max

(***************************************************************************)
(* C1: when generate_pencil_sound returns, the buffer has floor(D * R)     *)
(* entries, D = duration / DurDen, and the returned rate is R.             *)
(***************************************************************************)
C1_BufferLength ==
    Returned =>
        /\ Len(audio_data) * DurDen <= sample_rate * duration
        /\ sample_rate * duration < (Len(audio_data) + 1) * DurDen
        /\ main_rate = sample_rate

\* a returned buffer where D * R is not an integer
C1_Witness ==
    /\ Returned
    /\ Len(audio_data) > 0
    /\ (sample_rate * duration) % DurDen # 0

(***************************************************************************)
(* C2: every quantized sample lies in [-32768, 32767], and the cast does   *)
(* not wrap: a scaled value at or beyond an end of the range gives that    *)
(* end, and any other gives the value truncated toward zero.               *)
(***************************************************************************)
C2_QuantizerSaturates ==
    pc = "makedirs" =>
        /\ Len(audio_data) = Len(sound)
        /\ \A i \in 1..Len(audio_data) :
              /\ InInt16(audio_data[i])
              /\ ~sound[i].nan =>
                    LET x == sound[i].v * Int16Scale
                        a == audio_data[i]
                    IN /\ x >= Int16Max * Unit => a = Int16Max
                       /\ x <= Int16Min * Unit => a = Int16Min
                       /\ (Int16Min * Unit < x /\ x < Int16Max * Unit) =>
                             /\ Abs(a * Unit - x) < Unit
                             /\ Abs(a * Unit) <= Abs(x)

\* a signal value above 1.0 and one below -1.0 have been quantized
C2_Witness ==
    /\ pc = "makedirs"
    /\ \E i, j \in 1..Len(audio_data) :
          /\ ~sound[i].nan /\ sound[i].v > Unit /\ audio_data[i] = Int16Max
          /\ ~sound[j].nan /\ sound[j].v < -Unit /\ audio_data[j] = Int16Min

(***************************************************************************)
(* C3: when N >= 2 * fade_samples the envelope has length N, its first     *)
(* fade_samples gains rise strictly from 0 to 1, its last fade_samples     *)
(* gains fall strictly from 1 to 0, every other gain is 1 (all of them     *)
(* when fade_samples is 0).                                                *)
(***************************************************************************)
C3_EnvelopeRamps ==
    (PastEnvelope /\ Len(t) >= 2 * FadeSamples(sample_rate)) =>
        LET n == Len(t)
            f == FadeSamples(sample_rate)
        IN /\ ~EnvelopeRaised
           /\ Len(envelope) = n
           /\ f >= 1 => envelope[1] = 0 /\ envelope[f] = Unit
           /\ \A i \in 1..(f - 1) : envelope[i] < envelope[i + 1]
           /\ f >= 1 => envelope[n - f + 1] = Unit /\ envelope[n] = 0
           /\ \A i \in (n - f + 1)..(n - 1) : envelope[i] > envelope[i + 1]
           /\ \A i \in (f + 1)..(n - f) : envelope[i] = Unit

(***************************************************************************)
(* C4, as claimed: fade_samples is 0.05 * R rounded to the nearest         *)
(* integer (either neighbour at a tie).                                    *)
(***************************************************************************)
C4_FadeRounded ==
    PastEnvelope => Abs(20 * fade_samples - sample_rate) <= 10

(***************************************************************************)
(* C4, amended: fade_samples is 0.05 * R truncated, the largest integer    *)
(* not above R / 20.                                                       *)
(***************************************************************************)
C4_FadeTruncated ==
    PastEnvelope =>
        /\ 20 * fade_samples <= sample_rate
        /\ sample_rate < 20 * (fade_samples + 1)

\* a rate whose 0.05 * R has a fraction above one half
C4_Witness ==
    /\ PastEnvelope
    /\ sample_rate % 20 > 10
    /\ fade_samples = sample_rate \div 20

(***************************************************************************)
(* C5: a run of main that completes leaves at the output path a file that  *)
(* declares 1 channel, 16 bits, the returned sample rate and 2 * N bytes   *)
(* of sample data, holding the N samples; whatever was at the path is      *)
(* gone.  For the defaults (0.5 s at 44100 Hz) N is 22050 and the data     *)
(* length 44100.                                                           *)
(***************************************************************************)
C5_FileMatchesBuffer ==
    /\ pc = "done" =>
          /\ written
          /\ file.exists
          /\ file.channels = 1
          /\ file.bits = 16
          /\ file.rate = main_rate
          /\ main_rate = sample_rate
          /\ file.dataBytes = 2 * Len(audio_data)
          /\ Len(file.data) = file.dataBytes
          /\ \A i \in 1..Len(audio_data) :
                (file.data[2 * i - 1] + 256 * file.data[2 * i] - audio_data[i])
                    % 65536 = 0
          /\ file # oldFile
    /\ BufLen(DefaultDurNum, DefaultDurDen, DefaultSampleRate) = 22050
    /\ WavDataBytes(BufLen(DefaultDurNum, DefaultDurDen, DefaultSampleRate)) = 44100

\* a completed run that replaced a file of another format
C5_Witness ==
    /\ pc = "done"
    /\ oldFile = StaleFile
    /\ Len(audio_data) >= 2
    /\ \E i \in 1..Len(audio_data) : audio_data[i] < 0

(***************************************************************************)
(* C6: with duration 0 a run ends either with an explicit error and        *)
(* nothing written, or with a valid file of zero bytes of sample data; it  *)
(* never reports success over a file that declares another data length.    *)
(***************************************************************************)
C6_ZeroDuration ==
    (duration = 0 /\ pc \in {"done", "error"}) =>
        \/ pc = "error" /\ err # "" /\ ~written /\ file = oldFile
        \/ /\ pc = "done"
           /\ written
           /\ file.exists
           /\ file.dataBytes = 0
           /\ file.data = << >>

\* the run with duration 0 has ended
C6_Witness ==
    /\ duration = 0
    /\ pc = "error"
    /\ err = "ZeroDivisionError"
    /\ t = << >>

C8_ZeroNoiseFails ==
    (PastNormalize /\ peak = 0) =>
        /\ pc \notin {"write", "report", "done"}
        /\ ~written

(***************************************************************************)
(* The envelope that last-write-wins gives: gain i of n with fade f.       *)
(***************************************************************************)
RampUp(j, f) == IF f = 1 THEN 0 ELSE ((j - 1) * Unit) \div (f - 1)
RampDown(j, f) == IF f = 1 THEN Unit ELSE Unit - ((j - 1) * Unit) \div (f - 1)
LastWriteWins(i, n, f) ==
    IF i > n - f THEN RampDown(i - (n - f), f)
    ELSE IF i <= f THEN RampUp(i, f)
    ELSE Unit

(***************************************************************************)
(* C9, as claimed: whenever fade_samples exceeds N / 2, fade_samples > N   *)
(* included, the call returns a buffer of length N whose envelope is the   *)
(* fade-in overwritten by the fade-out.                                    *)
(***************************************************************************)
C9_OverlapReturns ==
    (PastEnvelope /\ 2 * fade_samples > Len(t)) =>
        /\ ~EnvelopeRaised
        /\ Len(envelope) = Len(t)
        /\ \A i \in 1..Len(t) : envelope[i] = LastWriteWins(i, Len(t), fade_samples)
        /\ Returned => Len(audio_data) = Len(t)

(***************************************************************************)
(* C9, amended: when N / 2 < fade_samples <= N the call returns a buffer   *)
(* of length N whose envelope is the fade-in overwritten by the fade-out;  *)
(* when fade_samples > N >= 1 the fade-in assignment raises ValueError     *)
(* and nothing is returned.                                                *)
(***************************************************************************)
C9_OverlapFits ==
    (PastEnvelope /\ 2 * fade_samples > Len(t)) =>
        IF fade_samples <= Len(t)
        THEN /\ ~EnvelopeRaised
             /\ Len(envelope) = Len(t)
             /\ \A i \in 1..Len(t) :
                   envelope[i] = LastWriteWins(i, Len(t), fade_samples)
             /\ Returned => Len(audio_data) = Len(t)
        ELSE EnvelopeRaised /\ audio_data = << >> /\ ~written

\* both ramps cover both gains of a two-sample buffer, which was returned
C9_Witness ==
    /\ Returned
    /\ Len(t) = 2
    /\ fade_samples = 2
    /\ envelope = <<Unit, 0>>

(***************************************************************************)
(* C10: when the filtered noise is not identically zero, the normalised    *)
(* noise has peak magnitude 0.3, the partials at most 0.1 and 0.05, the    *)
(* gains lie in [0, 1], so every sample before the quantizer has           *)
(* magnitude at most 0.45 and the clip changes nothing.                    *)
(***************************************************************************)
C10_SignalWithinUnit ==
    (PastFade /\ peak # 0) =>
        /\ \A i \in 1..Len(t) :
              /\ ~pink_noise[i].nan
              /\ 10 * Abs(pink_noise[i].v) <= 3 * Unit
              /\ 10 * Abs(Partial(1, 10, Partial1Hz, Decay1, t[i], TimeDen(Len(t))))
                    <= Unit
              /\ 100 * Abs(Partial(5, 100, Partial2Hz, Decay2, t[i], TimeDen(Len(t))))
                    <= 5 * Unit
              /\ 100 * Abs(harmonic[i]) <= 15 * Unit
              /\ 0 <= envelope[i] /\ envelope[i] <= Unit
              /\ ~sound[i].nan
              /\ 100 * Abs(sound[i].v) <= 45 * Unit
              /\ Clip(sound[i].v * Int16Scale) = sound[i].v * Int16Scale
        /\ \E i \in 1..Len(t) : 10 * (Abs(pink_noise[i].v) + 1) > 3 * Unit

\* a signal with noise and a partial both present in one sample
C10_Witness ==
    /\ PastFade
    /\ peak # 0
    /\ \E i \in 1..Len(t) :
          /\ harmonic[i] # 0
          /\ pink_noise[i].v # 0
          /\ envelope[i] # 0
          /\ sound[i].v # 0

====
